---- MODULE Spec2Model ----
(***************************************************************************)
(* The research workflow controller of src/App.tsx (the App component)     *)
(* together with the Gemini service functions it awaits (the second half   *)
(* of src/components/MarkdownReport.tsx, lines 121-308, imported by App as *)
(* ./services/geminiService).                                              *)
(*                                                                         *)
(* Every handler runs to its next await as one atomic step: JavaScript is  *)
(* single-threaded, and the React state updates of one synchronous block   *)
(* are applied together.  A pipeline (one call of startResearch or of      *)
(* handleFollowUp) is a record in procs; its pc names the Generation       *)
(* Service call it is awaiting.  The service never sees the AbortSignal    *)
(* (generateContent is called without it), so a call of a cancelled        *)
(* pipeline stays outstanding until the service answers.                   *)
(***************************************************************************)
EXTENDS Integers, Sequences, FiniteSets, TLC

VARIABLES
    state,          \* useState<AgentState>          App.tsx:13
    logs,           \* useState<LogEntry[]>         App.tsx:14
    report,         \* useState<ResearchReport|null> App.tsx:15: <<>> is null, <<r>> a report
    queries,        \* useState<SearchQuery[]>      App.tsx:16
    retryCount,     \* retryCountRef.current        App.tsx:17
    abortRef,       \* abortControllerRef.current   App.tsx:18: 0 is null, else the id of
                    \* the controller (of a pending call, or of one that has ended)
    procs,          \* the calls of startResearch / handleFollowUp, by controller id
    hist,           \* history of the latest main run: the review scores it received, the
                    \* compiles it completed, its entries into runSearchAndCompileLoop
                    \* and into Phase REWRITING
    io              \* under SpecIO, the input of the last follow-up commit (the grounding
                    \* chunks returned and the sources before the merge) or of the last
                    \* review (score and approved); under SpecCite, a list of grounding
                    \* chunks and the sources made of it; <<>> otherwise

vars == <<state, logs, report, queries, retryCount, abortRef, procs, hist, io>>

ctl == <<state, logs, report, queries, retryCount>>

-----------------------------------------------------------------------------
(* Bounds and input domains *)

MAX_RETRIES == 2

\* calls of startResearch / handleFollowUp made in one behaviour
MaxRuns == 3

\* the same, under SpecIO
MaxRunsIO == 2

\* the same, under SpecLive
MaxRunsLive == 2

\* groundingChunks in one service response
MaxChunks == 2

\* content of the topic input: empty, whitespace only, a topic
Topics == {"", " ", "solid-state batteries"}

Questions == {"why?"}

\* JSON.parse(text) of a brainstorm / refine response
BrainstormResults == {<<"q1", "q2">>}

RefineResults == {<<"q2", "q1">>}

\* response.text of a compile or follow-up response; "" is falsy
Texts == {"", "md"}

Answers == {"", "ans"}

Scores == {3, 4}

Feedbacks == {"", "add depth"}

\* chunk.web of a grounding chunk: the last one fails the filter (no title)
Webs ==
    { [uri |-> "https://a", title |-> "A"],
      [uri |-> "https://b", title |-> "B"],
      [uri |-> "https://b", title |-> ""] }

ChunkLists == UNION { [1..n -> Webs] : n \in 0..MaxChunks }

\* groundingChunks in one service response, under SpecCite
MaxChunksCite == 4

ChunkListsCite == UNION { [1..n -> Webs] : n \in 0..MaxChunksCite }

\* a rejection of ai.models.generateContent (transport error)
Rejections == {"fetch failed"}

-----------------------------------------------------------------------------
(* Pure helpers *)

TrimNone(s) == s

\* String.prototype.trim on the topic domain
Trim(s) == IF s = " " THEN "" ELSE s

\* sources.filter(web => web && web.uri && web.title)
ValidWebs(chunks) == SelectSeq(chunks, LAMBDA w : w.uri # "" /\ w.title # "")

\* Map.set(k, v) on a Map kept as the sequence of its entries in insertion order:
\* an existing key keeps its position and takes the new value
MapSet(m, s) ==
    IF \E i \in 1..Len(m) : m[i].uri = s.uri
    THEN [i \in 1..Len(m) |-> IF m[i].uri = s.uri THEN s ELSE m[i]]
    ELSE Append(m, s)

RECURSIVE MapOf(_)
MapOf(srcs) ==
    IF srcs = <<>> THEN <<>>
    ELSE MapSet(MapOf(SubSeq(srcs, 1, Len(srcs) - 1)), srcs[Len(srcs)])

uniqueSourcesKeepAll(srcs) == srcs

Reverse(srcs) == [i \in 1..Len(srcs) |-> srcs[Len(srcs) + 1 - i]]

uniqueSourcesLastSeen(srcs) == Reverse(MapOf(Reverse(srcs)))

\* Array.from(new Map(sources.map(s => [s.uri, s])).values())
uniqueSources(srcs) == MapOf(srcs)

Uris(srcs) == { srcs[i].uri : i \in 1..Len(srcs) }


-----------------------------------------------------------------------------
(* Errors and log entries *)

NoError == [name |-> "", message |-> ""]

\* new Error('Aborted')
AbortedError == [name |-> "Error", message |-> "Aborted"]

\* new Error("No response from Gemini")
NoResponseError == [name |-> "Error", message |-> "No response from Gemini"]

\* what a rejected generateContent throws
RejectError(m) == [name |-> "TypeError", message |-> m]

\* error.message === 'Aborted' || error.name === 'AbortError'
IsAbort(e) == e.message = "Aborted" \/ e.name = "AbortError"

\* a LogEntry without id and timestamp; details "" is undefined.  The details of
\* the two entries that only repeat a count (sources.length, newSourcesFound)
\* are left out.
Entry(step, message, details) ==
    [step |-> step, message |-> message, details |-> details]

addLogOnly(l, step, message, details) == <<Entry(step, message, details)>>

\* setLogs(prev => [...prev, entry])
addLog(l, step, message, details) == Append(l, Entry(step, message, details))

StoppedEntry == Entry("IDLE", "Research stopped by user.", "")

ErrorEntry(e) == Entry("ERROR", "An error occurred", e.message)

FollowUpStoppedEntry == Entry("COMPLETED", "Follow-up stopped by user.", "")

ProcessingMessage(q) == "Processing follow-up question: \"" \o q \o "\""

\* message.includes('follow-up'): of the messages the controller writes, only
\* the processing message holds the lower-case word
IncludesFollowUp(m) == \E q \in Questions : m = ProcessingMessage(q)

handleErrorStateIdle(e) == "IDLE"

\* handleError: the Phase it sets
handleErrorState(e) == IF IsAbort(e) THEN "IDLE" ELSE "ERROR"

handleErrorLogsTwice(l, e) ==
    IF IsAbort(e) THEN Append(l, StoppedEntry)
    ELSE Append(Append(l, ErrorEntry(e)), ErrorEntry(e))

\* handleError: the log sequence it leaves
handleErrorLogs(l, e) ==
    IF IsAbort(e) THEN Append(l, StoppedEntry) ELSE Append(l, ErrorEntry(e))

-----------------------------------------------------------------------------
(* The service functions: the request each one sends, and what it makes of the
   response.  A response is [hasText, ...]: hasText is the truthiness of
   response.text, the other fields are its parsed content. *)

NoReq ==
    [fn |-> "", topic |-> "", queries |-> <<>>, previous |-> "", feedback |-> "",
     body |-> "", question |-> ""]

brainstormRequest(topic) == [NoReq EXCEPT !.fn = "brainstormQueries", !.topic = topic]

reflectRequest(qs) == [NoReq EXCEPT !.fn = "reflectAndRefineQueries", !.queries = qs]

\* the prompt of searchAndCompile: the previous version and the feedback are in it
\* only if (previousFeedback && previousReport)
searchAndCompileRequest(topic, qs, fb, prev) ==
    [NoReq EXCEPT !.fn = "searchAndCompile", !.topic = topic, !.queries = qs,
                  !.previous = IF fb # "" /\ prev # "" THEN prev ELSE "",
                  !.feedback = IF fb # "" /\ prev # "" THEN fb ELSE ""]

reviewRequest(topic, md) == [NoReq EXCEPT !.fn = "reviewReport", !.topic = topic, !.body = md]

askFollowUpRequest(topic, md, q) ==
    [NoReq EXCEPT !.fn = "askFollowUp", !.topic = topic, !.body = md, !.question = q]

\* brainstormQueries / reflectAndRefineQueries after the await
queriesResult(resp) == IF ~resp.hasText THEN NoResponseError ELSE NoError

\* searchAndCompile after the await: the sources, then the text check
compileSources(resp) == uniqueSources(ValidWebs(resp.chunks))

compileError(resp) == IF resp.text = "" THEN NoResponseError ELSE NoError

\* reviewReport after the await
reviewError(resp) == IF ~resp.hasText THEN NoResponseError ELSE NoError

\* askFollowUp after the await: the signal check comes before the text check
askFollowUpError(resp, sigAborted) ==
    IF sigAborted THEN AbortedError
    ELSE IF resp.text = "" THEN NoResponseError ELSE NoError

QueryResponses(results) ==
    { [hasText |-> FALSE, json |-> <<>>] } \cup { [hasText |-> TRUE, json |-> r] : r \in results }

\* the responses tried for a call: an empty text makes the service function
\* throw whatever the chunks are, and so does a signalled handle after any
\* text, so one chunk list stands for all in both cases
TextResponses(texts, sigAborted) ==
    { [text |-> "", chunks |-> <<>>] }
    \cup [text : texts \ {""}, chunks : IF sigAborted THEN {<<>>} ELSE ChunkLists]

ReviewResponses ==
    { [hasText |-> FALSE, score |-> 0, feedback |-> "", approved |-> FALSE] }
    \cup [hasText : {TRUE}, score : Scores, feedback : Feedbacks, approved : BOOLEAN]

-----------------------------------------------------------------------------
(* The controller *)

\* a call not made yet.  aborted is signal.aborted of the call's controller; cause
\* (who signalled it) and superseded (start was called again since) are history.
NoProc ==
    [kind |-> "", pc |-> "", topic |-> "", cq |-> <<>>, temp |-> <<>>,
     captured |-> <<>>, question |-> "", req |-> NoReq, aborted |-> FALSE, cause |-> "",
     superseded |-> FALSE]

\* a call that has returned or thrown
Done == [NoProc EXCEPT !.pc = "done"]

Ids == 1..MaxRuns

Pending(p) == procs[p].pc \notin {"", "done"}

FreeIds == { i \in Ids : procs[i].pc = "" }

\* the id a new AbortController gets
NewId == CHOOSE i \in FreeIds : \A j \in FreeIds : i <= j

\* fewer than lim calls were made
MayCall(lim) == FreeIds # {} /\ NewId <= lim

NoHist == [scores |-> <<>>, compiles |-> 0, loops |-> 0, rewritings |-> 0]

\* isRunning, App.tsx:193
isRunning == state \notin {"IDLE", "COMPLETED", "ERROR"}

\* isProcessing, as App passes it to MarkdownReport
isProcessing ==
    state = "SEARCHING" /\ logs # <<>> /\ IncludesFollowUp(logs[Len(logs)].message)

\* what the handlers of one render see and write
Cur ==
    [state |-> state, logs |-> logs, report |-> report, queries |-> queries,
     retryCount |-> retryCount, abortRef |-> abortRef, procs |-> procs]

abortNone(ps, c, who) == ps

\* controller.abort() by who: sets the signal of call c.  A cancelled call throws
\* as soon as its await ends and reads none of its locals again, so they are
\* dropped.
abort(ps, c, who) ==
    IF ps[c].aborted THEN ps
    ELSE IF ps[c].pc = "done" THEN [ps EXCEPT ![c].aborted = TRUE]
    ELSE [ps EXCEPT ![c] =
            [NoProc EXCEPT !.kind = ps[c].kind, !.pc = ps[c].pc,
                           !.aborted = TRUE, !.cause = who]]

stopResearchSkipped(s, who) == s

stopResearchLogged(s, who) ==
    IF s.abortRef = 0 THEN s
    ELSE [s EXCEPT !.abortRef = 0, !.procs = abort(s.procs, s.abortRef, who),
                   !.logs = Append(@, StoppedEntry)]

\* stopResearch, called by who
stopResearch(s, who) ==
    IF s.abortRef = 0 THEN s
    ELSE [s EXCEPT !.abortRef = 0, !.procs = abort(s.procs, s.abortRef, who)]

\* the calls after stopResearch
stopProcs(who) == stopResearch(Cur, who).procs

\* a call that has returned or thrown, with the signal of its controller
Ended(p) == [Done EXCEPT !.aborted = procs[p].aborted]

\* const isRetry = !!feedback
isRetry(fb) == fb # ""

NewVersionStale(rc) == rc

\* version: retryCountRef.current + 1
NewVersion(rc) == rc + 1

reviewVerdict(review) == IF review.approved THEN 5 ELSE 1

\* review.score, as the decision reads it (App.tsx:135, 141)
reviewScore(review) == review.score

ShouldRewriteAlways(score, rc) == score < 4 /\ rc < MAX_RETRIES + 1

ShouldRewriteEarly(score, rc) == score < 4 /\ rc + 1 < MAX_RETRIES

\* review.score < 4 && retryCountRef.current < MAX_RETRIES
ShouldRewrite(score, rc) == score < 4 /\ rc < MAX_RETRIES

mergeSourcesAll(existing, returned) == existing \o returned

\* handleFollowUp: [...report.sources, ...sources.filter(s => !existingUris.has(s.uri))]
mergeSources(existing, returned) ==
    existing \o SelectSeq(returned, LAMBDA s : s.uri \notin Uris(existing))

followUpMarkdownReplace(md, q, answer) ==
    "### Follow-up: " \o q \o "\n\n" \o answer

\* const newMarkdown = `${report.markdown}\n\n---\n\n### Follow-up: ${query}\n\n${answer}`
followUpMarkdown(md, q, answer) ==
    md \o "\n\n---\n\n### Follow-up: " \o q \o "\n\n" \o answer

Init ==
    /\ state = "IDLE"
    /\ logs = <<>>
    /\ report = <<>>
    /\ queries = <<>>
    /\ retryCount = 0
    /\ abortRef = 0
    /\ procs = [i \in Ids |-> NoProc]
    /\ hist = NoHist
    /\ io = <<>>

resetReportKeep(r) == r

\* setReport(null)
resetReport(r) == <<>>

resetLogsKeep(l) == l

\* setLogs([])
resetLogs(l) == <<>>

\* the render after a handler that left s
Commit(s) ==
    /\ state' = s.state
    /\ logs' = s.logs
    /\ report' = s.report
    /\ queries' = s.queries
    /\ retryCount' = s.retryCount
    /\ abortRef' = s.abortRef
    /\ procs' = s.procs

\* startResearch up to its first await, with id the new AbortController: nothing
\* on an empty or whitespace-only topic; else every call still pending is from
\* now on the call of an earlier run
startResearch(s, t, id) ==
    IF Trim(t) = "" THEN s
    ELSE LET r == stopResearch(s, "start")
         IN  [state |-> "BRAINSTORMING",
              logs |-> addLog(addLog(resetLogs(r.logs), "IDLE",
                                     "Starting research on: \"" \o t \o "\"", ""),
                              "BRAINSTORMING", "Brainstorming search queries...", ""),
              report |-> resetReport(r.report),
              queries |-> <<>>,
              retryCount |-> 0,
              abortRef |-> id,
              procs |-> [i \in Ids |->
                    IF i = id
                    THEN [NoProc EXCEPT !.kind = "main", !.pc = "brainstorm",
                                        !.topic = t, !.req = brainstormRequest(t)]
                    ELSE IF r.procs[i].pc \notin {"", "done"}
                         THEN [r.procs[i] EXCEPT !.superseded = TRUE]
                         ELSE r.procs[i]]]

\* startResearch with an empty or whitespace-only topic (Enter in the input)
StartEmpty(t) ==
    /\ ~isRunning
    /\ Trim(t) = ""
    /\ Commit(startResearch(Cur, t, 0))
    /\ UNCHANGED <<hist, io>>

\* startResearch with a topic, from the Start button or Enter
StartResearch(t, lim) ==
    /\ ~isRunning
    /\ Trim(t) # ""
    /\ MayCall(lim)
    /\ Commit(startResearch(Cur, t, NewId))
    /\ hist' = NoHist
    /\ io' = <<>>

\* stopResearch from the Stop button, a controller stored
StopActive ==
    /\ isRunning
    /\ abortRef # 0
    /\ Commit(stopResearch(Cur, "stop"))
    /\ UNCHANGED <<hist, io>>

\* stopResearch from the Stop button, no controller stored
StopIdle ==
    /\ isRunning
    /\ abortRef = 0
    /\ Commit(stopResearch(Cur, "stop"))
    /\ UNCHANGED <<hist, io>>

\* the catch of startResearch: handleError(error)
MainThrows(p, e) ==
    /\ state' = handleErrorState(e)
    /\ logs' = handleErrorLogs(logs, e)
    /\ procs' = [procs EXCEPT ![p] = Ended(p)]
    /\ UNCHANGED <<report, queries, retryCount, abortRef, hist, io>>

MainErrorUnchecked(p, svc) == svc

\* what the await of a main-pipeline call throws: the service function's own
\* error first, else the signal check that follows the await
MainError(p, svc) ==
    IF svc # NoError THEN svc
    ELSE IF procs[p].aborted THEN AbortedError ELSE NoError

\* generateContent rejects while a main pipeline awaits it
MainCallRejects(p, m) ==
    /\ procs[p].kind = "main"
    /\ MainThrows(p, RejectError(m))

\* runSearchAndCompileLoop from its entry to the await of searchAndCompile
\* (the entry check of the signal passes: the caller has just checked it)
EnterLoop(st, lg, fb, rc) ==
    /\ state' = IF isRetry(fb) THEN "REWRITING" ELSE "COMPILING"
    /\ logs' = IF isRetry(fb)
               THEN addLog(lg, "REWRITING",
                           "Rewriting report (Attempt " \o ToString(rc) \o "/"
                               \o ToString(MAX_RETRIES) \o ")...", fb)
               ELSE addLog(lg, "SEARCHING",
                           "Searching web (via Google Grounding) and compiling report...", "")
    /\ hist' = [st EXCEPT !.loops = @ + 1,
                           !.rewritings = IF isRetry(fb) THEN @ + 1 ELSE @]

\* brainstormQueries returns: startResearch up to the await of reflectAndRefineQueries
BrainstormReturns(p, resp) ==
    /\ procs[p].pc = "brainstorm"
    /\ LET e == MainError(p, queriesResult(resp)) IN
       IF e # NoError THEN MainThrows(p, e)
       ELSE /\ state' = "REFLECTING"
            /\ logs' = addLog(addLog(logs, "BRAINSTORMING",
                                     "Generated " \o ToString(Len(resp.json)) \o " initial queries",
                                     ToString(resp.json)),
                              "REFLECTING", "Reflecting and refining queries...", "")
            /\ procs' = [procs EXCEPT ![p].pc = "reflect", ![p].req = reflectRequest(resp.json)]
            /\ UNCHANGED <<report, queries, retryCount, abortRef, hist, io>>

\* reflectAndRefineQueries returns: startResearch into runSearchAndCompileLoop, up
\* to the await of the first searchAndCompile
ReflectReturns(p, resp) ==
    /\ procs[p].pc = "reflect"
    /\ LET e == MainError(p, queriesResult(resp)) IN
       IF e # NoError THEN MainThrows(p, e)
       ELSE /\ queries' = resp.json
            /\ EnterLoop(hist,
                         addLog(logs, "REFLECTING",
                                "Selected top " \o ToString(Len(resp.json)) \o " queries",
                                ToString(resp.json)),
                         "", retryCount)
            /\ procs' = [procs EXCEPT ![p].pc = "compile", ![p].cq = resp.json,
                            ![p].req = searchAndCompileRequest(procs[p].topic, resp.json, "", "")]
            /\ UNCHANGED <<report, retryCount, abortRef, io>>

\* searchAndCompile returns: runSearchAndCompileLoop up to the await of reviewReport
CompileReturns(p, resp) ==
    /\ procs[p].pc = "compile"
    /\ LET e == MainError(p, compileError(resp)) IN
       IF e # NoError THEN MainThrows(p, e)
       ELSE LET sources == compileSources(resp)
                tempReport == [topic |-> procs[p].topic, markdown |-> resp.text,
                               sources |-> sources, version |-> NewVersion(retryCount)]
            IN  /\ logs' = addLog(addLog(logs, "COMPILING", "Report compiled. Sources found:",
                                         ""),
                                  "REVIEWING", "Sending report to reviewer agent...", "")
                /\ report' = <<tempReport>>
                /\ state' = "REVIEWING"
                /\ procs' = [procs EXCEPT ![p].pc = "review", ![p].temp = <<tempReport>>,
                                ![p].req = reviewRequest(procs[p].topic, resp.text)]
                /\ hist' = [hist EXCEPT !.compiles = @ + 1]
                /\ UNCHANGED <<queries, retryCount, abortRef, io>>

\* reviewReport returns: runSearchAndCompileLoop to its end, or through the
\* recursive call up to the await of the next searchAndCompile
ReviewDecides(p, resp) ==
    /\ procs[p].pc = "review"
    /\ LET e == MainError(p, reviewError(resp)) IN
       IF e # NoError THEN MainThrows(p, e)
       ELSE LET tempReport == procs[p].temp[1]
                scored == [topic |-> tempReport.topic, markdown |-> tempReport.markdown,
                           sources |-> tempReport.sources, version |-> tempReport.version,
                           score |-> resp.score, feedback |-> resp.feedback]
                reviewed == addLog(logs, "REVIEWING",
                                   "Review Complete. Score: " \o ToString(resp.score) \o "/5",
                                   resp.feedback)
                seen == [hist EXCEPT !.scores = Append(@, resp.score)]
            IN  /\ report' = <<scored>>
                /\ IF ShouldRewrite(reviewScore(resp), retryCount)
                   THEN /\ retryCount' = retryCount + 1
                        /\ EnterLoop(seen,
                                     addLog(reviewed, "REVIEWING",
                                            "Score too low (<4). Initiating rewrite loop.", ""),
                                     resp.feedback, retryCount + 1)
                        /\ procs' = [procs EXCEPT ![p].pc = "compile", ![p].temp = <<>>,
                                        ![p].req = searchAndCompileRequest(
                                            procs[p].topic, procs[p].cq,
                                            resp.feedback, tempReport.markdown)]
                   ELSE /\ retryCount' = retryCount
                        /\ logs' = IF reviewScore(resp) < 4
                                   THEN addLog(reviewed, "COMPLETED",
                                          "Max retries reached. Finalizing report despite low score.", "")
                                   ELSE addLog(reviewed, "COMPLETED",
                                          "Report approved! Research complete.", "")
                        /\ state' = "COMPLETED"
                        /\ procs' = [procs EXCEPT ![p] = Ended(p)]
                        /\ hist' = seen
                /\ UNCHANGED <<queries, abortRef>>

\* the same step with io: rec says whether io records the review received
ReviewReturns(p, resp, rec) ==
    /\ ReviewDecides(p, resp)
    /\ io' = IF rec /\ MainError(p, reviewError(resp)) = NoError
             THEN <<[score |-> resp.score, approved |-> resp.approved]>>
             ELSE io

\* handleFollowUp up to the await inside askFollowUp (whose first check of the
\* fresh signal passes), with id the new AbortController: nothing if there is no
\* Report; the report is the one of the render that made the handler
handleFollowUp(s, q, id) ==
    IF s.report = <<>> THEN s
    ELSE LET r == stopResearch(s, "followUp")
         IN  [r EXCEPT
                !.abortRef = id,
                !.state = "SEARCHING",
                !.logs = addLog(@, "SEARCHING", ProcessingMessage(q), ""),
                !.procs = [@ EXCEPT
                    ![id] = [NoProc EXCEPT !.kind = "followUp", !.pc = "followUp",
                                !.captured = s.report, !.question = q,
                                !.req = askFollowUpRequest(s.report[1].topic,
                                                           s.report[1].markdown, q)]]]

\* the follow-up form of MarkdownReport, shown with a Report, submits q
HandleFollowUp(q, lim) ==
    /\ report # <<>>
    /\ ~isProcessing
    /\ Trim(q) # ""
    /\ MayCall(lim)
    /\ Commit(handleFollowUp(Cur, q, NewId))
    /\ UNCHANGED <<hist, io>>

\* the catch of handleFollowUp
FollowUpThrows(p, e) ==
    /\ state' = "COMPLETED"
    /\ logs' = IF IsAbort(e) THEN Append(logs, FollowUpStoppedEntry)
               ELSE handleErrorLogs(logs, e)
    /\ procs' = [procs EXCEPT ![p] = Ended(p)]
    /\ UNCHANGED <<report, queries, retryCount, abortRef, hist, io>>

\* generateContent rejects while askFollowUp awaits it
FollowUpCallRejects(p, m) ==
    /\ procs[p].kind = "followUp"
    /\ FollowUpThrows(p, RejectError(m))

\* generateContent returns to askFollowUp: handleFollowUp to its end; rec says
\* whether io records the input of the merge
FollowUpReturns(p, resp, rec) ==
    /\ procs[p].pc = "followUp"
    /\ LET e == askFollowUpError(resp, procs[p].aborted) IN
       IF e # NoError THEN FollowUpThrows(p, e)
       ELSE LET old == procs[p].captured[1]
                sources == compileSources(resp)
                updatedSources == mergeSources(old.sources, sources)
            IN  /\ report' = <<[old EXCEPT
                                  !.markdown = followUpMarkdown(@, procs[p].question, resp.text),
                                  !.sources = updatedSources]>>
                /\ logs' = addLog(logs, "COMPLETED", "Follow-up answer added to report.",
                                  "")
                /\ state' = "COMPLETED"
                /\ procs' = [procs EXCEPT ![p] = Ended(p)]
                /\ io' = IF rec THEN <<[chunks |-> resp.chunks, before |-> report[1].sources]>>
                          ELSE io
                /\ UNCHANGED <<queries, retryCount, abortRef, hist>>

\* the Generation Service answers the call that p awaits
AnswerOf(p, rec) ==
    \/ \E m \in Rejections : MainCallRejects(p, m)
    \/ \E r \in QueryResponses(BrainstormResults) : BrainstormReturns(p, r)
    \/ \E r \in QueryResponses(RefineResults) : ReflectReturns(p, r)
    \/ \E r \in TextResponses(Texts, procs[p].aborted) : CompileReturns(p, r)
    \/ \E r \in ReviewResponses : ReviewReturns(p, r, rec)
    \/ \E m \in Rejections : FollowUpCallRejects(p, m)
    \/ \E r \in TextResponses(Answers, procs[p].aborted) : FollowUpReturns(p, r, rec)

\* the steps of the calls in flight: the Generation Service answers one of them
Answer(rec) == \E p \in Ids : AnswerOf(p, rec)

Next ==
    \/ \E t \in Topics : StartEmpty(t)
    \/ \E t \in Topics : StartResearch(t, MaxRuns)
    \/ StopActive
    \/ StopIdle
    \/ \E q \in Questions : HandleFollowUp(q, MaxRuns)
    \/ Answer(FALSE)

Spec == Init /\ [][Next]_vars

NextIO ==
    \/ \E t \in Topics : StartEmpty(t)
    \/ \E t \in Topics : StartResearch(t, MaxRunsIO)
    \/ StopActive
    \/ StopIdle
    \/ \E q \in Questions : HandleFollowUp(q, MaxRunsIO)
    \/ Answer(TRUE)

\* the same program, with the input of every follow-up merge recorded
SpecIO == Init /\ [][NextIO]_vars

NextLive ==
    \/ \E t \in Topics : StartEmpty(t)
    \/ \E t \in Topics : StartResearch(t, MaxRunsLive)
    \/ StopActive
    \/ StopIdle
    \/ \E q \in Questions : HandleFollowUp(q, MaxRunsLive)
    \/ Answer(FALSE)

\* the program with a Generation Service that answers every call, sooner or later
SpecLive == Init /\ [][NextLive]_vars /\ \A p \in Ids : WF_vars(AnswerOf(p, FALSE))

\* searchAndCompile, from the grounding chunks of the response to the sources
\* it returns
ExtractSources ==
    /\ io # <<>>
    /\ DOMAIN io[1] = {"chunks"}
    /\ io' = <<[chunks |-> io[1].chunks,
                sources |-> compileSources([text |-> "md", chunks |-> io[1].chunks])]>>
    /\ UNCHANGED <<ctl, abortRef, procs, hist>>

InitCite ==
    /\ state = "IDLE"
    /\ logs = <<>>
    /\ report = <<>>
    /\ queries = <<>>
    /\ retryCount = 0
    /\ abortRef = 0
    /\ procs = [i \in Ids |-> NoProc]
    /\ hist = NoHist
    /\ io \in { <<[chunks |-> c]>> : c \in ChunkListsCite }

NextCite == ExtractSources

\* the source extraction of searchAndCompile alone, on every list of chunks
SpecCite == InitCite /\ [][NextCite]_vars

-----------------------------------------------------------------------------
(* Vocabulary of the properties *)

\* call p resumes from its await in this step
Step(p) == Pending(p) /\ procs'[p].pc # procs[p].pc

\* call p returns or throws in this step
Ends(p) == Pending(p) /\ procs'[p].pc = "done"

LastLog == logs[Len(logs)]

ApprovedMessage == "Report approved! Research complete."

ExhaustedMessage == "Max retries reached. Finalizing report despite low score."

FollowUpAddedMessage == "Follow-up answer added to report."

\* the main pipeline has just set Phase COMPLETED
MainCompleted ==
    /\ state = "COMPLETED"
    /\ logs # <<>>
    /\ LastLog.step = "COMPLETED"
    /\ LastLog.message \in {ApprovedMessage, ExhaustedMessage}

\* a follow-up has just committed its answer
FollowUpCommitted ==
    /\ state = "COMPLETED"
    /\ logs # <<>>
    /\ LastLog.message = FollowUpAddedMessage

NoDuplicateUri(srcs) ==
    \A i, j \in 1..Len(srcs) : i # j => srcs[i].uri # srcs[j].uri

\* the number of reviews, from the first, that scored below 4 in a row
RECURSIVE LowPrefix(_)
LowPrefix(scores) ==
    IF scores = <<>> \/ Head(scores) >= 4 THEN 0 ELSE 1 + LowPrefix(Tail(scores))

Min(a, b) == IF a <= b THEN a ELSE b

\* rewrite passes of the latest run whose compile has completed
RewritesCompiled == IF hist.compiles = 0 THEN 0 ELSE hist.compiles - 1

\* position of the first chunk of uri u
FirstAt(chunks, u) ==
    CHOOSE i \in 1..Len(chunks) :
        chunks[i].uri = u /\ \A j \in 1..(i - 1) : chunks[j].uri # u

\* what a follow-up can append to a body: a separator, the question, an answer
FollowUpSuffixes ==
    { "\n\n---\n\n### Follow-up: " \o q \o "\n\n" \o a : q \in Questions, a \in Answers \ {""} }

\* body old is a prefix of body new, by what a follow-up appends
IsPrefixOf(old, new) == \E x \in FollowUpSuffixes : new = old \o x

\* the calls awaiting the Generation Service
InFlight == { p \in Ids : Pending(p) }

\* the controllers made so far whose signal is not set
Unsignaled == { p \in Ids : procs[p].pc # "" /\ ~procs[p].aborted }

\* this step is startResearch making call p
Starts(p) == procs[p].pc = "" /\ procs'[p].kind = "main"

\* Phase, log sequence, Report, query set and retry counter of s
CtlOf(s) == <<s.state, s.logs, s.report, s.queries, s.retryCount>>

\* the Phases in which a pipeline is at work; Searching/Compiling is one node
NonTerminal ==
    {"BRAINSTORMING", "REFLECTING", "SEARCHING", "COMPILING", "REVIEWING", "REWRITING"}

SearchingCompiling == {"SEARCHING", "COMPILING"}

\* the edges of the state machine summary
Edges ==
    ({"IDLE", "COMPLETED", "ERROR"} \X {"BRAINSTORMING"})
    \cup {<<"BRAINSTORMING", "REFLECTING">>}
    \cup ({"REFLECTING"} \X SearchingCompiling)
    \cup (SearchingCompiling \X SearchingCompiling)
    \cup (SearchingCompiling \X {"REVIEWING"})
    \cup {<<"REVIEWING", "REWRITING">>}
    \cup ({"REWRITING"} \X SearchingCompiling)
    \cup {<<"REVIEWING", "COMPLETED">>}
    \cup (NonTerminal \X {"IDLE", "ERROR"})
    \cup {<<"COMPLETED", "SEARCHING">>, <<"SEARCHING", "COMPLETED">>}

-----------------------------------------------------------------------------
(* Claims *)

\* C1 (as stated): once start has been called again, no step of a main run that
\* was still awaiting a Generation Service call at that moment changes Phase, log
\* sequence, Report, query set or retry counter.
C1_StaleRunChangesNothing ==
    [][\A p \in Ids :
          (Step(p) /\ procs[p].kind = "main" /\ procs[p].superseded) => UNCHANGED ctl]_vars

\* C2 (as stated): a main run cancelled by stop() ends by setting Phase IDLE and
\* appending the 'stopped by user' entry and nothing else, whether its outstanding
\* call returns content or fails.
C2_StoppedRunEndsIdle ==
    [][\A p \in Ids :
          (Step(p) /\ procs[p].kind = "main" /\ procs[p].cause = "stop")
              => (state' = "IDLE" /\ logs' = Append(logs, StoppedEntry))]_vars

\* C3: the retry counter is in 0..MAX_RETRIES, a run makes at most MAX_RETRIES
\* rewrite passes, and whenever a Report exists its version is 1 + the number of
\* rewrite passes of the run whose compile has completed, hence in 1..MAX_RETRIES+1.
C3_VersionCountsRewrites ==
    /\ retryCount \in 0..MAX_RETRIES
    /\ hist.loops <= MAX_RETRIES + 1
    /\ report # <<>> =>
        /\ hist.compiles >= 1
        /\ report[1].version = 1 + RewritesCompiled
        /\ report[1].version \in 1..(MAX_RETRIES + 1)

\* C3 witness: a Report of version 3, after two rewrite compiles
C3_Witness ==
    /\ report # <<>>
    /\ report[1].version = MAX_RETRIES + 1
    /\ hist.compiles = MAX_RETRIES + 1
    /\ retryCount = MAX_RETRIES

\* C4: when the main pipeline has set Phase COMPLETED, the Report's score is >= 4
\* or the retry counter equals MAX_RETRIES.
C4_CompletedApprovedOrExhausted ==
    MainCompleted => (report[1].score >= 4 \/ retryCount = MAX_RETRIES)

\* C4 witness: a run completed on an exhausted budget with a score below 4
C4_Witness ==
    MainCompleted /\ report[1].score < 4 /\ retryCount = MAX_RETRIES

\* C5: Report.sources never holds two entries of the same uri.
C5_SourcesUniqueByUri ==
    report # <<>> => NoDuplicateUri(report[1].sources)

\* C5 witness: a follow-up has merged its sources into a Report that now has two
C5_Witness ==
    FollowUpCommitted /\ Len(report[1].sources) = 2

\* C6 (as stated): after every review of an un-cancelled main run, if score < 4
\* and retryCount < MAX_RETRIES then retryCount grows by 1, Phase becomes
\* REWRITING and the next compile request carries the feedback and the previous
\* body; otherwise Phase becomes COMPLETED.  For every feedback, the empty one too.
C6_ReviewDecision ==
    [][\A p \in Ids :
          (Step(p) /\ procs[p].pc = "review" /\ ~procs[p].aborted
                   /\ report' # <<>> /\ "score" \in DOMAIN report'[1])
              => IF report'[1].score < 4 /\ retryCount < MAX_RETRIES
                 THEN /\ retryCount' = retryCount + 1
                      /\ state' = "REWRITING"
                      /\ procs'[p].req.fn = "searchAndCompile"
                      /\ procs'[p].req.feedback = report'[1].feedback
                      /\ procs'[p].req.previous = report[1].markdown
                 ELSE /\ retryCount' = retryCount
                      /\ state' = "COMPLETED"]_vars

\* C7 (as stated): when a main run completes, with k the number of leading reviews
\* below 4 and n = min(MAX_RETRIES, k): the run went n times through Phase
\* REWRITING, retryCount = n and Report.version = n + 1.
C7_RewritingCycles ==
    MainCompleted =>
        LET n == Min(MAX_RETRIES, LowPrefix(hist.scores))
        IN  /\ hist.rewritings = n
            /\ retryCount = n
            /\ report[1].version = n + 1

\* C8 (as stated): when a main run cancelled by stop() ends in Phase IDLE, no
\* Report is present.
C8_StoppedRunDiscardsReport ==
    [][\A p \in Ids :
          (Ends(p) /\ procs[p].kind = "main" /\ procs[p].cause = "stop" /\ state' = "IDLE")
              => report' = <<>>]_vars

\* C9: when the brainstorm or the refine call of an un-cancelled main run fails,
\* Phase becomes ERROR, no Report exists, and exactly one entry, of kind ERROR,
\* is appended to the log.
C9_EarlyFailure ==
    [][\A p \in Ids :
          (Ends(p) /\ procs[p].kind = "main" /\ procs[p].pc \in {"brainstorm", "reflect"}
                   /\ ~procs[p].aborted)
              => /\ state' = "ERROR"
                 /\ report' = <<>>
                 /\ Len(logs') = Len(logs) + 1
                 /\ SubSeq(logs', 1, Len(logs)) = logs
                 /\ logs'[Len(logs')].step = "ERROR"]_vars

\* C9 witness: the brainstorm call of a run that was never cancelled has failed
C9_Witness ==
    /\ state = "ERROR"
    /\ report = <<>>
    /\ abortRef # 0
    /\ procs[abortRef].pc = "done"
    /\ Len(logs) = 3
    /\ logs[2].message = "Brainstorming search queries..."
    /\ logs[3].step = "ERROR"

\* C10: a follow-up commit leaves the previous sources in place and appends one
\* entry per uri that is new, taken from the returned chunks, in the order in
\* which those uris first come in the response.
C10_FollowUpMerge ==
    [][\A p \in Ids :
          (Ends(p) /\ procs[p].pc = "followUp" /\ FollowUpCommitted')
              => LET old == report[1].sources
                     new == report'[1].sources
                     ret == ValidWebs(io'[1].chunks)
                     novel == Uris(ret) \ Uris(old)
                     added == (Len(old) + 1)..Len(new)
                 IN  /\ io'[1].before = old
                     /\ Len(new) = Len(old) + Cardinality(novel)
                     /\ \A i \in 1..Len(old) : new[i] = old[i]
                     /\ { new[i].uri : i \in added } = novel
                     /\ \A i \in added : \E k \in 1..Len(ret) : ret[k] = new[i]
                     /\ \A i, j \in added :
                            i < j => FirstAt(ret, new[i].uri) < FirstAt(ret, new[j].uri)]_vars

\* C10 witness: the Report had the source https://a, the response cited https://a
\* and then https://b, and the Report now has https://a, https://b
C10_Witness ==
    /\ FollowUpCommitted
    /\ io # <<>>
    /\ Len(io[1].before) = 1
    /\ io[1].before[1].uri = "https://a"
    /\ Len(io[1].chunks) = 2
    /\ io[1].chunks[1].uri = "https://a"
    /\ io[1].chunks[2].uri = "https://b"
    /\ io[1].chunks[2].title # ""
    /\ Len(report[1].sources) = 2
    /\ report[1].sources[1] = io[1].before[1]
    /\ report[1].sources[2].uri = "https://b"

\* C11: a follow-up that succeeds leaves the Report's version, score, feedback and
\* topic (a score not yet given stays absent), the retry counter and the query
\* set as they were, and the previous body is a prefix of the new body.
C11_FollowUpFrame ==
    [][\A p \in Ids :
          (Ends(p) /\ procs[p].pc = "followUp" /\ FollowUpCommitted')
              => /\ report # <<>>
                 /\ DOMAIN report'[1] = DOMAIN report[1]
                 /\ \A f \in DOMAIN report[1] \ {"markdown", "sources"} :
                        report'[1][f] = report[1][f]
                 /\ {"topic", "version"} \subseteq DOMAIN report[1]
                 /\ IsPrefixOf(report[1].markdown, report'[1].markdown)
                 /\ retryCount' = retryCount
                 /\ queries' = queries]_vars

\* C11 witness: a follow-up has added its answer to a Report that was reviewed
\* after one rewrite
C11_Witness ==
    /\ FollowUpCommitted
    /\ "score" \in DOMAIN report[1]
    /\ report[1].version = 2
    /\ retryCount = 1
    /\ report[1].markdown = followUpMarkdown("md", "why?", "ans")

\* C12 (as stated): when a follow-up that was cancelled by stop(), or whose call
\* failed, ends, Phase becomes COMPLETED, the Report the follow-up was issued on
\* is still the Report (so there is one, this step leaves it as it is, and it is
\* the one the call holds if the call was never cancelled), and one entry is
\* appended: the follow-up stop entry, or an ERROR entry with the failure detail.
C12_FollowUpFailureKeepsReport ==
    [][\A p \in Ids :
          (Ends(p) /\ procs[p].kind = "followUp"
                   /\ (procs[p].cause = "stop" \/ logs'[Len(logs')].step = "ERROR"))
              => /\ state' = "COMPLETED"
                 /\ report' # <<>>
                 /\ report' = report
                 /\ ~procs[p].aborted => report' = procs[p].captured
                 /\ Len(logs') = Len(logs) + 1
                 /\ SubSeq(logs', 1, Len(logs)) = logs
                 /\ \/ logs'[Len(logs')] = FollowUpStoppedEntry
                    \/ /\ logs'[Len(logs')].step = "ERROR"
                       /\ logs'[Len(logs')].details # ""]_vars

\* C13 (as stated): at most one Generation Service call is in flight at any time.
C13_OneCallInFlight == Cardinality(InFlight) <= 1

\* C14: at most one cancellation handle is un-signaled, and it is the stored one:
\* every other pipeline, running or ended, holds a signaled handle.
C14_OneLiveHandle ==
    /\ Cardinality(Unsignaled) <= 1
    /\ \A p \in Unsignaled : abortRef = p

\* C14 witness: three pipelines were started, two are still awaiting a call, and
\* only the handle of the latest is un-signaled
C14_Witness ==
    \E p, q, r \in Ids :
        /\ p < q /\ q < r
        /\ procs[p].aborted /\ procs[q].aborted /\ ~procs[r].aborted
        /\ Pending(q) /\ Pending(r)
        /\ procs[q].cause \in {"start", "followUp"}
        /\ abortRef = r

\* C15: right after start(topic) with a non-empty topic, from any Phase: Phase is
\* BRAINSTORMING, no Report, no queries, retry counter 0, and the log holds the
\* two entries of the new run and nothing of an earlier run.
C15_StartResets ==
    [][\A p \in Ids :
          Starts(p)
              => /\ state' = "BRAINSTORMING"
                 /\ report' = <<>>
                 /\ queries' = <<>>
                 /\ retryCount' = 0
                 /\ logs' = << Entry("IDLE", "Starting research on: \"" \o procs'[p].topic
                                                 \o "\"", ""),
                               Entry("BRAINSTORMING", "Brainstorming search queries...", "") >>]_vars

\* C15 witness: a second start has just been made, after the first run ended
C15_Witness ==
    /\ state = "BRAINSTORMING"
    /\ abortRef > 1
    /\ procs[abortRef].kind = "main"
    /\ procs[abortRef].pc = "brainstorm"
    /\ procs[1].pc = "done"
    /\ Len(logs) = 2
    /\ report = <<>>
    /\ queries = <<>>
    /\ retryCount = 0

\* C16: in every reachable state, stop() leaves Phase, log sequence, Report, query
\* set and retry counter as they are; it changes nothing at all when no handle is
\* stored, and only drops the handle of an ended call when no call is outstanding;
\* a second stop() right after changes nothing more.
C16_StopIdempotent ==
    LET once == stopResearch(Cur, "stop")
        twice == stopResearch(once, "stop")
    IN  /\ CtlOf(once) = ctl
        /\ abortRef = 0 => once = Cur
        /\ InFlight = {} => \A p \in Ids : once.procs[p].pc = procs[p].pc
        /\ twice = once

\* C16 witness: stop() was pressed on a running pipeline, whose call is still
\* outstanding, and the Stop button is there for a second stop()
C16_Witness ==
    /\ isRunning
    /\ abortRef = 0
    /\ \E p \in Ids : Pending(p) /\ procs[p].cause = "stop"

\* C17: when a call of an un-cancelled main run fails, in any step, Phase becomes
\* ERROR, one ERROR entry with the failure detail is appended, the retry counter
\* stays, and the run ends there with no further call; and a main run issues a
\* compile call only after the refine step or after a review that scored below 4.
C17_FailureIsTerminal ==
    [][\A p \in Ids :
          /\ (Ends(p) /\ procs[p].kind = "main" /\ ~procs[p].aborted /\ report' = report)
                => /\ state' = "ERROR"
                   /\ logs' = Append(logs, logs'[Len(logs')])
                   /\ logs'[Len(logs')].step = "ERROR"
                   /\ logs'[Len(logs')].details \in
                          {NoResponseError.message} \cup Rejections
                   /\ retryCount' = retryCount
                   /\ procs'[p].req = NoReq
          /\ (Step(p) /\ procs'[p].req.fn = "searchAndCompile")
                => \/ procs[p].pc = "reflect"
                   \/ /\ procs[p].pc = "review"
                      /\ report'[1].score < 4]_vars

\* C17 witness: the call of a rewrite pass has failed: Phase ERROR, the counter
\* still 1, the run ended
C17_Witness ==
    /\ state = "ERROR"
    /\ retryCount = 1
    /\ hist.rewritings = 1
    /\ abortRef # 0
    /\ procs[abortRef].pc = "done"
    /\ ~procs[abortRef].aborted
    /\ LastLog.step = "ERROR"

\* C18 (as stated): every change of Phase is an edge of the state machine
\* summary (so REVIEWING is entered from Searching/Compiling only, in a rewrite
\* pass too), and Phase never becomes IDLE or COMPLETED while a newer un-cancelled
\* run is in a non-terminal Phase.
C18_PhaseEdges ==
    [][/\ state' # state => <<state, state'>> \in Edges
       /\ (state' # state /\ state' \in {"IDLE", "COMPLETED"})
             => ~\E p \in Ids : Pending(p) /\ procs'[p] = procs[p] /\ ~procs[p].aborted
                                /\ procs[p].kind = "main"]_vars

\* C19: if the Generation Service answers every call, every call of a pipeline
\* ends; a main run ends by setting Phase IDLE, COMPLETED or ERROR and a
\* follow-up by setting COMPLETED; and a main run makes at most MAX_RETRIES + 1
\* compile calls and at most MAX_RETRIES + 1 review calls.
C19_Termination ==
    /\ \A p \in Ids : Pending(p) ~> (procs[p].pc = "done")
    /\ [][\A p \in Ids :
             Ends(p) => IF procs[p].kind = "main"
                        THEN state' \in {"IDLE", "COMPLETED", "ERROR"}
                        ELSE state' = "COMPLETED"]_vars
    /\ [](hist.loops <= MAX_RETRIES + 1 /\ hist.compiles <= MAX_RETRIES + 1)

\* C19 witness: a main run has completed after MAX_RETRIES + 1 compile calls and
\* as many reviews
C19_Witness ==
    /\ MainCompleted
    /\ hist.loops = MAX_RETRIES + 1
    /\ hist.compiles = MAX_RETRIES + 1
    /\ Len(hist.scores) = MAX_RETRIES + 1
    /\ \A p \in Ids : ~Pending(p)

\* C20: the step the Controller takes on a review does not depend on the approved
\* field (the review with the other value of approved leads to the same Phase,
\* log, Report, counter and next request), and the run is approved exactly when
\* the score is >= 4.
C20_ApprovedIgnored ==
    [][\A p \in Ids : \A r \in ReviewResponses :
          (r.hasText /\ ~procs[p].aborted /\ ReviewReturns(p, r, TRUE))
              => /\ ReviewDecides(p, [r EXCEPT !.approved = ~r.approved])
                 /\ report'[1].score = r.score
                 /\ (state' = "COMPLETED" /\ logs'[Len(logs')].message = ApprovedMessage)
                        <=> r.score >= 4
                 /\ state' \in {"REWRITING", "COMPILING"}
                        <=> (r.score < 4 /\ retryCount < MAX_RETRIES)]_vars

\* C20 witness: a review of score 4 that came with approved false has completed
\* the run as approved
C20_Witness ==
    /\ MainCompleted
    /\ io = <<[score |-> 4, approved |-> FALSE]>>
    /\ report[1].score = 4
    /\ LastLog.message = ApprovedMessage

\* C21: once the handle of a pipeline is signaled, the next step of that pipeline
\* is its last: it issues no further Generation Service call and leaves Report,
\* query set and retry counter as they are.
C21_SignaledPipelineStops ==
    [][\A p \in Ids :
          (Step(p) /\ procs[p].aborted)
              => /\ procs'[p].pc = "done"
                 /\ procs'[p].req = NoReq
                 /\ UNCHANGED <<report, queries, retryCount>>]_vars

\* C21 witness: a main run signaled while its review was outstanding has ended;
\* the Report is still the unscored one of its compile
C21_Witness ==
    /\ state = "IDLE"
    /\ logs # <<>>
    /\ LastLog = StoppedEntry
    /\ report # <<>>
    /\ "score" \notin DOMAIN report[1]
    /\ \A p \in Ids : procs[p].pc # "" => (procs[p].pc = "done" /\ procs[p].aborted)

\* C22: every step other than the reset of start leaves the log sequence it found
\* as a prefix of the new one: entries are appended, none is changed or removed.
C22_LogAppendOnly ==
    [][(~\E p \in Ids : Starts(p))
          => /\ Len(logs') >= Len(logs)
             /\ SubSeq(logs', 1, Len(logs)) = logs]_vars

\* C22 witness: a log to which a pipeline step, a followUp and then the failure
\* handler of the earlier run have appended
C22_Witness ==
    \E i, j, k \in 1..Len(logs) :
        /\ i < j /\ j < k
        /\ logs[i].step = "REVIEWING"
        /\ IncludesFollowUp(logs[j].message)
        /\ logs[k].step = "ERROR"

\* C23: in every reachable state, start with an empty or whitespace-only topic
\* and, when there is no Report, followUp leave Phase, log sequence, Report,
\* query set, retry counter, the stored handle and every call as they are.
C23_PreconditionNoOps ==
    /\ \A t \in {"", " "} : \A id \in Ids : startResearch(Cur, t, id) = Cur
    /\ report = <<>> => \A q \in Questions : \A id \in Ids : handleFollowUp(Cur, q, id) = Cur

\* C23 witness: the input takes Enter, no Report is shown, and the call of the
\* current run is outstanding, its handle un-signaled
C23_Witness ==
    /\ ~isRunning
    /\ report = <<>>
    /\ abortRef # 0
    /\ Pending(abortRef)
    /\ ~procs[abortRef].aborted

\* C24: from start until the first compile of that run completes, and for as
\* long as it has not, no Report exists, whatever calls of earlier pipelines
\* end in between.
C24_NoReportBeforeCompile ==
    hist.compiles = 0 => report = <<>>

\* C24 witness: the current run awaits its first compile, no Report exists, and
\* a follow-up on the previous Report, in flight when start was called, has
\* not ended yet
C24_Witness ==
    /\ report = <<>>
    /\ hist.compiles = 0
    /\ abortRef # 0
    /\ procs[abortRef].kind = "main"
    /\ procs[abortRef].pc = "compile"
    /\ \E p \in Ids : procs[p].kind = "followUp" /\ Pending(p) /\ procs[p].superseded

\* C25: whenever a follow-up commits its answer, the Report it overwrites is the
\* Report that existed when that followUp was invoked.
C25_NoLostUpdate ==
    [][\A p \in Ids :
          (Ends(p) /\ procs[p].pc = "followUp" /\ FollowUpCommitted')
              => /\ ~procs[p].aborted
                 /\ procs[p].captured = report]_vars

\* C25 witness: two follow-ups have committed one after the other, and the
\* Report holds both answers
C25_Witness ==
    /\ FollowUpCommitted
    /\ report[1].markdown =
          followUpMarkdown(followUpMarkdown("md", "why?", "ans"), "why?", "ans")

\* C26 (as stated): the source list made of the grounding chunks returned holds
\* each distinct uri of the chunks exactly once, in the order in which the uris
\* first come in the chunks, and no other uri.
C26_DedupFirstSeen ==
    (io # <<>> /\ "sources" \in DOMAIN io[1])
        => LET input == io[1].chunks
               out == io[1].sources
           IN  /\ Uris(out) = Uris(input)
               /\ NoDuplicateUri(out)
               /\ \A i, j \in 1..Len(out) :
                      i < j => FirstAt(input, out[i].uri) < FirstAt(input, out[j].uri)

\* C26 (amended): the same of the chunks that have a uri and a title, the only
\* ones searchAndCompile keeps; and every source is one of those chunks.
C26_DedupFirstSeenValid ==
    (io # <<>> /\ "sources" \in DOMAIN io[1])
        => LET input == ValidWebs(io[1].chunks)
               out == io[1].sources
           IN  /\ Uris(out) = Uris(input)
               /\ NoDuplicateUri(out)
               /\ \A i \in 1..Len(out) : \E k \in 1..Len(input) : input[k] = out[i]
               /\ \A i, j \in 1..Len(out) :
                      i < j => FirstAt(input, out[i].uri) < FirstAt(input, out[j].uri)

\* C26 witness: the chunks https://a, https://b without a title, https://b,
\* https://a have given the sources https://a, https://b
C26_Witness ==
    /\ io # <<>>
    /\ "sources" \in DOMAIN io[1]
    /\ io[1].chunks = << [uri |-> "https://a", title |-> "A"],
                         [uri |-> "https://b", title |-> ""],
                         [uri |-> "https://b", title |-> "B"],
                         [uri |-> "https://a", title |-> "A"] >>
    /\ io[1].sources = << [uri |-> "https://a", title |-> "A"],
                          [uri |-> "https://b", title |-> "B"] >>

====
